---- MODULE Spec2Model ----
(***************************************************************************)
(* State-machine model of starfield/main.go: the setup performed by        *)
(* newStarfield (newWindow, newVR, InitOpenGL, newShaders, scene           *)
(* construction, device renderables, compositor) and the frame loop        *)
(* run -> handleInput -> renderFrame.                                      *)
(*                                                                         *)
(* The window system, the VR runtime and the compositor are the            *)
(* environment: every value they return is an input drawn from a small     *)
(* set.  Every call the program makes to them is appended to a trace       *)
(* (setupLog during setup, calls during one loop iteration), so that the   *)
(* order and the arguments of the calls are part of the state.             *)
(***************************************************************************)
EXTENDS Integers, Sequences, FiniteSets

VARIABLES
    pc,           \* position of the single OS thread in main/newStarfield/run
    recSize,      \* runtime: answer of GetRecommendedRenderTargetSize
    setupLog,     \* setup steps executed so far, in order
    propQueries,  \* property ids passed to GetStringTrackedDeviceProperty
    connected,    \* <<name, dsn>> printed by newVR, <<>> before
    win,          \* window struct: live width/height (size callback)
    shouldClose,  \* glfw close flag of the window
    app,          \* starfield struct fields set by newStarfield
    hmdPose,      \* starfield.hmdPose (mgl32.Mat4, column-major)
    hmdLoc,       \* starfield.hmdLoc  (mgl32.Vec3)
    compPose,     \* compositor: pose obtained by the last WaitGetPoses
    vrQueue,      \* runtime: pending VR events
    evBudget,     \* events the runtime may still produce (model bound)
    printed,      \* number of lines handleInput has written to stdout
    calls,        \* calls issued by the current loop iteration, in order
    frame,        \* number of completed loop iterations
    submitLog,    \* eyes passed to Compositor.Submit over the session
    waitCount,    \* number of WaitGetPoses calls over the session
    used,         \* <<hmdPose, hmdLoc>> read by the latest rendered frame
    usedPrev,     \* the same for the frame before it
    lastCheck,    \* result of the latest IsPoseValid check ("none" before)
    firstValid,   \* iteration whose IsPoseValid check first returned true, 0 if none
    failed        \* the setup step that returned an error, "" if none

vars == <<pc, recSize, setupLog, propQueries, connected, win, shouldClose,
          app, hmdPose, hmdLoc, compPose, vrQueue, evBudget, printed, calls,
          frame, submitLog, waitCount, used, usedPrev, lastCheck,
          firstValid, failed>>

(***************************************************************************)
(* Bounds of the model.                                                    *)
(***************************************************************************)
MaxFrames == 3     \* loop iterations explored
MaxEvents == 2     \* VR events the runtime produces over the session
MaxStars == 2     \* length of the star list (1000 in the program)

(***************************************************************************)
(* Program constants.                                                      *)
(***************************************************************************)
WindowWidth == 1280
WindowHeight == 720
MaxX == 10
MaxY == 10
MaxZ == 10

(***************************************************************************)
(* Inputs supplied by the environment.                                     *)
(***************************************************************************)
\* answers of GetRecommendedRenderTargetSize: <<width, height>>
RecSizes == { <<1512, 1680>>, <<2160, 1200>> }

\* sizes the window system may report to the size callback
ResizeTo == { <<800, 600>> }

\* string properties of the HMD held by the runtime
Props == { "PropTrackingSystemNameString", "PropSerialNumberString" }
PropValue(p) == IF p = "PropTrackingSystemNameString" THEN "lighthouse"
                ELSE "LHR-0001"

\* kinds of VR event delivered by PollNextEvent, each with its device index
EventTypes == { "VREventTrackedDeviceActivated",
                "VREventTrackedDeviceDeactivated",
                "VREventTrackedDeviceUpdated",
                "VREventOther" }
Events == { [EventType |-> t, TrackedDeviceIndex |-> 1] : t \in EventTypes }

\* device-to-world poses (openvr.Mat34, row-major 3x4) the compositor may
\* return: a pure translation, and a quarter turn about the y axis.
HmdPoses == { << 1, 0, 0, 1,   0, 1, 0, 2,   0, 0, 1, 3 >>,
              << 0, 0, 1, 0,   0, 1, 0, 1,  -1, 0, 0, 0 >> }

\* seed of the math/rand source: the program never calls rand.Seed
Seeds == { 1 }

(***************************************************************************)
(* mgl32 / openvr matrix helpers.  A Mat4 is a 16-tuple in column-major    *)
(* order; Go index i is tuple index i+1.                                   *)
(***************************************************************************)
ZeroMat4 == [i \in 1..16 |-> 0]
ZeroVec3 == <<0, 0, 0>>

At(m, r, c) == m[c * 4 + r + 1]

Mat34ToMat4(p) ==
    << p[1], p[5], p[9],  0,
       p[2], p[6], p[10], 0,
       p[3], p[7], p[11], 0,
       p[4], p[8], p[12], 1 >>

Mul4(a, b) ==
    [i \in 1..16 |->
        LET r == (i - 1) % 4
            c == (i - 1) \div 4
        IN  At(a, r, 0) * At(b, 0, c) + At(a, r, 1) * At(b, 1, c)
          + At(a, r, 2) * At(b, 2, c) + At(a, r, 3) * At(b, 3, c)]

Others(k) == CASE k = 0 -> <<1, 2, 3>>
               [] k = 1 -> <<0, 2, 3>>
               [] k = 2 -> <<0, 1, 3>>
               [] k = 3 -> <<0, 1, 2>>

Det3(m, rs, cs) ==
      At(m, rs[1], cs[1]) * (At(m, rs[2], cs[2]) * At(m, rs[3], cs[3])
                           - At(m, rs[2], cs[3]) * At(m, rs[3], cs[2]))
    - At(m, rs[1], cs[2]) * (At(m, rs[2], cs[1]) * At(m, rs[3], cs[3])
                           - At(m, rs[2], cs[3]) * At(m, rs[3], cs[1]))
    + At(m, rs[1], cs[3]) * (At(m, rs[2], cs[1]) * At(m, rs[3], cs[2])
                           - At(m, rs[2], cs[2]) * At(m, rs[3], cs[1]))

Cofactor(m, r, c) ==
    (IF (r + c) % 2 = 0 THEN 1 ELSE -1) * Det3(m, Others(r), Others(c))

Det(m) ==
      At(m, 0, 0) * Cofactor(m, 0, 0) + At(m, 0, 1) * Cofactor(m, 0, 1)
    + At(m, 0, 2) * Cofactor(m, 0, 2) + At(m, 0, 3) * Cofactor(m, 0, 3)

\* mgl32.Mat4.Inv: the zero matrix for a singular argument, else adj/det.
\* The poses of HmdPoses have determinant 1, so the division is exact.
Inv(m) ==
    IF Det(m) = 0 THEN ZeroMat4
    ELSE [i \in 1..16 |->
            LET r == (i - 1) % 4
                c == (i - 1) \div 4
            IN  Cofactor(m, c, r) \div Det(m)]

Translate3D(x, y, z) ==
    << 1, 0, 0, 0,   0, 1, 0, 0,   0, 0, 1, 0,   x, y, z, 1 >>

\* result of vr.GetEyeTransforms(0.1, 30.0), fixed for the session
EyeTransforms ==
    [ PositionLeft    |-> Translate3D(1, 0, 0),
      PositionRight   |-> Translate3D(-1, 0, 0),
      ProjectionLeft  |-> "ProjectionLeft",
      ProjectionRight |-> "ProjectionRight" ]

\* result of fizzlevr.CreateStereoRenderTargets: GL object names per eye
EyeFramebufferLeft ==
    [ RenderFramebuffer |-> 1, ResolveFramebuffer |-> 2, ResolveTexture |-> 3 ]
EyeFramebufferRight ==
    [ RenderFramebuffer |-> 4, ResolveFramebuffer |-> 5, ResolveTexture |-> 6 ]

\* Go conversion int32(x) of a uint32 x: x itself up to 2^31-1, x - 2^32 above
ToInt32(x) ==
    IF x <= 2147483647 THEN x ELSE ((x - 2147483647) - 2147483647) - 2

(***************************************************************************)
(* Star list: lines 95-107.  rand.Float64 is modelled by a small linear    *)
(* congruential source yielding tenths in 0..9.                            *)
(***************************************************************************)
RandNext(s) == (5 * s + 3) % 16
RandTenths(s) == (s * 10) \div 16

RECURSIVE MakeStars(_, _)
MakeStars(n, s) ==
    IF n = 0 THEN <<>>
    ELSE LET s1 == RandNext(s)
             s2 == RandNext(s1)
             s3 == RandNext(s2)
             x  == (RandTenths(s1) * MaxX) \div 10 - MaxX \div 2
             y  == (RandTenths(s2) * MaxY) \div 10 - MaxY \div 2
             z  == (RandTenths(s3) * MaxZ) \div 10 - MaxZ \div 2
         IN  << [ Mesh     |-> "Sphere",
                  Material |-> "redMaterial",
                  Location |-> <<x, y, z>> ] >> \o MakeStars(n - 1, s3)

(***************************************************************************)
(* Trace records: one per call the program makes to a collaborator.        *)
(* `sec` names the part of the iteration that issued the call.             *)
(***************************************************************************)
Call(sec, op, args) == [sec |-> sec, op |-> op, args |-> args]

NilApp ==
    [ built |-> FALSE, lwidth |-> 0, lheight |-> 0,
      rendererRes |-> <<0, 0>>, targetArgs |-> <<0, 0>>,
      width |-> 0, height |-> 0,
      eyeLeft |-> EyeFramebufferLeft, eyeRight |-> EyeFramebufferRight,
      eyeTransforms |-> EyeTransforms, renderables |-> <<>> ]

NoPose == [valid |-> FALSE, pose |-> <<>>]

Init ==
    /\ pc = "glfwInit"
    /\ recSize = <<0, 0>>
    /\ setupLog = <<>>
    /\ propQueries = <<>>
    /\ connected = <<>>
    /\ win = [width |-> 0, height |-> 0]
    /\ shouldClose = FALSE
    /\ app = NilApp
    /\ hmdPose = ZeroMat4
    /\ hmdLoc = ZeroVec3
    /\ compPose = NoPose
    /\ vrQueue = <<>>
    /\ evBudget = MaxEvents
    /\ printed = 0
    /\ calls = <<>>
    /\ frame = 0
    /\ submitLog = <<>>
    /\ waitCount = 0
    /\ used = <<>>
    /\ usedPrev = <<>>
    /\ lastCheck = "none"
    /\ firstValid = 0
    /\ failed = ""

(***************************************************************************)
(* Setup: main (24-30), newStarfield (52-141), newWindow (265-295),        *)
(* newVR (302-324), newShaders (334-351).  A step that returns an error    *)
(* makes newStarfield return it and main call log.Fatal: pc = "fatal".     *)
(***************************************************************************)
\* a setup call that either succeeds or returns an error, and changes
\* nothing else
FailableStep(here, name, next) ==
    /\ pc = here
    /\ setupLog' = Append(setupLog, name)
    /\ \E ok \in BOOLEAN :
          /\ pc' = IF ok THEN next ELSE "fatal"
          /\ failed' = IF ok THEN failed ELSE name

GlfwInit ==
    /\ FailableStep("glfwInit", "glfw.Init", "createWindow")
    /\ UNCHANGED <<recSize, propQueries, connected, win, shouldClose, app,
                   hmdPose, hmdLoc, compPose, vrQueue, evBudget, printed,
                   calls, frame, submitLog, waitCount, used, usedPrev,
                   lastCheck, firstValid>>

\* lines 278-294, then the key binding of lines 58-60
CreateWindow ==
    /\ pc = "createWindow"
    /\ setupLog' = Append(setupLog, "glfw.CreateWindow")
    /\ \E ok \in BOOLEAN :
          IF ok
          THEN /\ win' = [width |-> WindowWidth, height |-> WindowHeight]
               /\ failed' = failed
               /\ pc' = "vrInit"
          ELSE /\ win' = win
               /\ failed' = "glfw.CreateWindow"
               /\ pc' = "fatal"
    /\ UNCHANGED <<recSize, propQueries, connected, shouldClose, app,
                   hmdPose, hmdLoc, compPose, vrQueue, evBudget, printed,
                   calls, frame, submitLog, waitCount, used, usedPrev,
                   lastCheck, firstValid>>

\* lines 303-311: openvr.Init; a nil system without an error panics
VrInit ==
    /\ pc = "vrInit"
    /\ setupLog' = Append(setupLog, "openvr.Init")
    /\ \E r \in {"ok", "err", "nil"} :
          /\ pc' = CASE r = "ok"  -> "propName"
                     [] r = "err" -> "fatal"
                     [] r = "nil" -> "panic"
          /\ failed' = IF r = "err" THEN "openvr.Init" ELSE failed
    /\ UNCHANGED <<recSize, propQueries, connected, win, shouldClose, app,
                   hmdPose, hmdLoc, compPose, vrQueue, evBudget, printed,
                   calls, frame, submitLog, waitCount, used, usedPrev,
                   lastCheck, firstValid>>

\* line 327: the device and property actually passed to the runtime
QueriedProperty(device, property) ==
    <<"TrackedDeviceIndexHmd", "PropTrackingSystemNameString">>

\* lines 326-332: status is the runtime's answer to the query made
deviceProperty(device, property, status) ==
    LET q == QueriedProperty(device, property)
    IN  [ query |-> q,
          ok    |-> status = "TrackedPropSuccess",
          val   |-> IF status = "TrackedPropSuccess" THEN PropValue(q[2])
                    ELSE "" ]

PropStatus == { "TrackedPropSuccess", "TrackedPropError" }

\* lines 313-316
PropName ==
    /\ pc = "propName"
    /\ \E status \in PropStatus :
       LET r == deviceProperty("TrackedDeviceIndexHmd",
                               "PropTrackingSystemNameString", status)
       IN  /\ setupLog' = Append(setupLog, "deviceProperty:name")
           /\ propQueries' = Append(propQueries, r.query[2])
           /\ IF r.ok
              THEN /\ connected' = <<r.val>>
                   /\ failed' = failed
                   /\ pc' = "propSerial"
              ELSE /\ connected' = connected
                   /\ failed' = "deviceProperty:name"
                   /\ pc' = "fatal"
    /\ UNCHANGED <<recSize, win, shouldClose, app, hmdPose, hmdLoc,
                   compPose, vrQueue, evBudget, printed, calls, frame,
                   submitLog, waitCount, used, usedPrev, lastCheck,
                   firstValid>>

\* lines 318-323; on success both values are printed
PropSerial ==
    /\ pc = "propSerial"
    /\ \E status \in PropStatus :
       LET r == deviceProperty("TrackedDeviceIndexHmd",
                               "PropSerialNumberString", status)
       IN  /\ setupLog' = Append(setupLog, "deviceProperty:serial")
           /\ propQueries' = Append(propQueries, r.query[2])
           /\ IF r.ok
              THEN /\ connected' = <<connected[1], r.val>>
                   /\ failed' = failed
                   /\ pc' = "initOpenGL"
              ELSE /\ connected' = connected
                   /\ failed' = "deviceProperty:serial"
                   /\ pc' = "fatal"
    /\ UNCHANGED <<recSize, win, shouldClose, app, hmdPose, hmdLoc,
                   compPose, vrQueue, evBudget, printed, calls, frame,
                   submitLog, waitCount, used, usedPrev, lastCheck,
                   firstValid>>

InitOpenGL ==
    /\ FailableStep("initOpenGL", "opengl.InitOpenGL", "shaderBasic")
    /\ UNCHANGED <<recSize, propQueries, connected, win, shouldClose, app,
                   hmdPose, hmdLoc, compPose, vrQueue, evBudget, printed,
                   calls, frame, submitLog, waitCount, used, usedPrev,
                   lastCheck, firstValid>>

ShaderBasic ==
    /\ FailableStep("shaderBasic", "forward.CreateBasicShader", "shaderModel")
    /\ UNCHANGED <<recSize, propQueries, connected, win, shouldClose, app,
                   hmdPose, hmdLoc, compPose, vrQueue, evBudget, printed,
                   calls, frame, submitLog, waitCount, used, usedPrev,
                   lastCheck, firstValid>>

ShaderModel ==
    /\ FailableStep("shaderModel", "LoadShaderProgram:RenderModel",
                    "shaderLens")
    /\ UNCHANGED <<recSize, propQueries, connected, win, shouldClose, app,
                   hmdPose, hmdLoc, compPose, vrQueue, evBudget, printed,
                   calls, frame, submitLog, waitCount, used, usedPrev,
                   lastCheck, firstValid>>

ShaderLens ==
    /\ FailableStep("shaderLens", "LoadShaderProgram:LensDistortion",
                    "buildScene")
    /\ UNCHANGED <<recSize, propQueries, connected, win, shouldClose, app,
                   hmdPose, hmdLoc, compPose, vrQueue, evBudget, printed,
                   calls, frame, submitLog, waitCount, used, usedPrev,
                   lastCheck, firstValid>>

\* line 111: arguments of fizzlevr.CreateStereoRenderTargets
StereoTargetArgs(width, height) == <<width, height>>

\* line 81: arguments of renderer.ChangeResolution
ChangeResolutionArgs(width, height) == <<ToInt32(width), ToInt32(width)>>

\* lines 78-112: renderer, recommended size, light, material, stars, eye
\* transforms, stereo targets, distortion lens.  None of them can fail.
BuildScene ==
    /\ pc = "buildScene"
    /\ setupLog' = Append(setupLog, "buildScene")
    /\ \E sz \in RecSizes, seed \in Seeds :
          /\ recSize' = sz
          /\ app' = [app EXCEPT
                       !.lwidth = sz[1],
                       !.lheight = sz[2],
                       !.rendererRes = ChangeResolutionArgs(sz[1], sz[2]),
                       !.targetArgs = StereoTargetArgs(sz[1], sz[2]),
                       !.renderables = MakeStars(MaxStars, seed)]
    /\ pc' = "deviceRenderables"
    /\ UNCHANGED <<propQueries, connected, win, shouldClose, hmdPose,
                   hmdLoc, compPose, vrQueue, evBudget, printed, calls,
                   frame, submitLog, waitCount, used, usedPrev, lastCheck,
                   firstValid, failed>>

\* faulty variant: the error of CreateDeviceRenderables is dropped
DeviceRenderablesUnchecked ==
    /\ pc = "deviceRenderables"
    /\ setupLog' = Append(setupLog, "fizzlevr.CreateDeviceRenderables")
    /\ \E ok \in BOOLEAN :
          /\ pc' = "getCompositor"
          /\ failed' = IF ok THEN failed
                       ELSE "fizzlevr.CreateDeviceRenderables"
    /\ UNCHANGED <<recSize, propQueries, connected, win, shouldClose, app,
                   hmdPose, hmdLoc, compPose, vrQueue, evBudget, printed,
                   calls, frame, submitLog, waitCount, used, usedPrev,
                   lastCheck, firstValid>>

DeviceRenderables ==
    /\ FailableStep("deviceRenderables", "fizzlevr.CreateDeviceRenderables",
                    "getCompositor")
    /\ UNCHANGED <<recSize, propQueries, connected, win, shouldClose, app,
                   hmdPose, hmdLoc, compPose, vrQueue, evBudget, printed,
                   calls, frame, submitLog, waitCount, used, usedPrev,
                   lastCheck, firstValid>>

\* faulty variant: the slip of line 81 repeated in the struct literal
StarfieldSizeWidthTwice(width, height) == [width |-> width, height |-> width]

\* lines 124-139: the width and height fields of the starfield struct
StarfieldSize(width, height) == [width |-> width, height |-> height]

\* faulty variant: a head pose is fetched before the first frame is rendered
GetCompositorWithPose ==
    /\ pc = "getCompositor"
    /\ setupLog' = Append(setupLog, "openvr.GetCompositor")
    /\ \E ok \in BOOLEAN :
          IF ok
          THEN /\ app' = [app EXCEPT
                            !.built = TRUE,
                            !.width = app.lwidth,
                            !.height = app.lheight]
               /\ \E p \in HmdPoses :
                     /\ hmdPose' = Inv(Mat34ToMat4(p))
                     /\ hmdLoc' = <<p[10], p[11], p[12]>>
               /\ failed' = failed
               /\ pc' = "loopHead"
          ELSE /\ app' = app
               /\ UNCHANGED <<hmdPose, hmdLoc>>
               /\ failed' = "openvr.GetCompositor"
               /\ pc' = "fatal"
    /\ UNCHANGED <<recSize, propQueries, connected, win, shouldClose,
                   compPose, vrQueue, evBudget, printed, calls, frame,
                   submitLog, waitCount, used, usedPrev, lastCheck,
                   firstValid>>

\* lines 119-140, then main calls app.run() (line 29)
GetCompositor ==
    /\ pc = "getCompositor"
    /\ setupLog' = Append(setupLog, "openvr.GetCompositor")
    /\ \E ok \in BOOLEAN :
          IF ok
          THEN /\ app' = [app EXCEPT
                            !.built = TRUE,
                            !.width = StarfieldSize(app.lwidth, app.lheight).width,
                            !.height = StarfieldSize(app.lwidth, app.lheight).height]
               /\ failed' = failed
               /\ pc' = "loopHead"
          ELSE /\ app' = app
               /\ failed' = "openvr.GetCompositor"
               /\ pc' = "fatal"
    /\ UNCHANGED <<recSize, propQueries, connected, win, shouldClose,
                   hmdPose, hmdLoc, compPose, vrQueue, evBudget, printed,
                   calls, frame, submitLog, waitCount, used, usedPrev,
                   lastCheck, firstValid>>

Setup ==
    \/ GlfwInit \/ CreateWindow \/ VrInit \/ PropName \/ PropSerial
    \/ InitOpenGL \/ ShaderBasic \/ ShaderModel \/ ShaderLens \/ BuildScene
    \/ DeviceRenderables \/ GetCompositor

(***************************************************************************)
(* The frame loop: run (143-148), handleInput (150-168),                   *)
(* renderFrame (170-196), renderStereoTargets (198-229),                   *)
(* renderScene (231-255).                                                  *)
(***************************************************************************)
\* line 144: the loop test.  MaxFrames bounds the iterations explored.
LoopHead ==
    /\ pc = "loopHead"
    /\ IF shouldClose
       THEN /\ pc' = "exited"
            /\ calls' = calls
       ELSE /\ frame < MaxFrames
            /\ pc' = "pollEvents"
            /\ calls' = <<>>
    /\ UNCHANGED <<recSize, setupLog, propQueries, connected, win,
                   shouldClose, app, hmdPose, hmdLoc, compPose, vrQueue,
                   evBudget, printed, frame, submitLog, waitCount, used,
                   usedPrev, lastCheck, firstValid, failed>>

\* lines 288-291: the size callback
SizeCallback(w, width, height) == [w EXCEPT !.width = width, !.height = height]

\* line 152: glfw.PollEvents dispatches a pending resize and a pending
\* close request of the window system
PollEvents ==
    /\ pc = "pollEvents"
    /\ calls' = Append(calls, Call("input", "glfw.PollEvents", <<>>))
    /\ \E close \in BOOLEAN : shouldClose' = (shouldClose \/ close)
    /\ \/ win' = win
       \/ \E sz \in ResizeTo : win' = SizeCallback(win, sz[1], sz[2])
    /\ pc' = "checkKeys"
    /\ UNCHANGED <<recSize, setupLog, propQueries, connected, app, hmdPose,
                   hmdLoc, compPose, vrQueue, evBudget, printed, frame,
                   submitLog, waitCount, used, usedPrev, lastCheck,
                   firstValid, failed>>

\* faulty variant: the escape key toggles the flag
EscapeToggles(flag) == ~flag

\* line 59: the trigger bound to the escape key, win.SetShouldClose(true)
EscapeTrigger(flag) == TRUE

\* line 155: CheckKeyPresses runs the trigger when escape is pressed
CheckKeyPresses ==
    /\ pc = "checkKeys"
    /\ calls' = Append(calls, Call("input", "kbModel.CheckKeyPresses", <<>>))
    /\ \E escape \in BOOLEAN :
          shouldClose' = IF escape THEN EscapeTrigger(shouldClose)
                         ELSE shouldClose
    /\ pc' = "drain"
    /\ UNCHANGED <<recSize, setupLog, propQueries, connected, win, app,
                   hmdPose, hmdLoc, compPose, vrQueue, evBudget, printed,
                   frame, submitLog, waitCount, used, usedPrev, lastCheck,
                   firstValid, failed>>

\* the runtime queues a device event.  The queue is read only by the drain
\* loop, so arrivals are modelled before and during it.
RuntimeEvent ==
    /\ pc \in {"pollEvents", "drain"}
    /\ evBudget > 0
    /\ \E e \in Events : vrQueue' = Append(vrQueue, e)
    /\ evBudget' = evBudget - 1
    /\ UNCHANGED <<pc, recSize, setupLog, propQueries, connected, win,
                   shouldClose, app, hmdPose, hmdLoc, compPose, printed,
                   calls, frame, submitLog, waitCount, used, usedPrev,
                   lastCheck, firstValid, failed>>

\* lines 159-166: the lines the switch prints for an event
EventPrint(e) ==
    CASE e.EventType = "VREventTrackedDeviceActivated" ->
            << <<"Device %d attached.", e.TrackedDeviceIndex>> >>
      [] e.EventType = "VREventTrackedDeviceDeactivated" ->
            << <<"Device %d detached.", e.TrackedDeviceIndex>> >>
      [] e.EventType = "VREventTrackedDeviceUpdated" ->
            << <<"Device %d updated.", e.TrackedDeviceIndex>> >>
      [] OTHER -> <<>>

\* faulty variant: a detached device closes the window
PollNextEventDetachCloses ==
    /\ pc = "drain"
    /\ vrQueue # <<>>
    /\ calls' = Append(calls, Call("events", "PollNextEvent", <<TRUE>>))
    /\ printed' = printed + Len(EventPrint(Head(vrQueue)))
    /\ shouldClose' =
          (shouldClose
             \/ Head(vrQueue).EventType = "VREventTrackedDeviceDeactivated")
    /\ vrQueue' = Tail(vrQueue)
    /\ pc' = "drain"
    /\ UNCHANGED <<recSize, setupLog, propQueries, connected, win, app,
                   hmdPose, hmdLoc, compPose, evBudget, frame, submitLog,
                   waitCount, used, usedPrev, lastCheck, firstValid,
                   failed>>

\* lines 158-166: PollNextEvent returns an event, the loop body handles it
PollNextEventSome ==
    /\ pc = "drain"
    /\ vrQueue # <<>>
    /\ calls' = Append(calls, Call("events", "PollNextEvent", <<TRUE>>))
    /\ printed' = printed + Len(EventPrint(Head(vrQueue)))
    /\ vrQueue' = Tail(vrQueue)
    /\ pc' = "drain"
    /\ UNCHANGED <<recSize, setupLog, propQueries, connected, win,
                   shouldClose, app, hmdPose, hmdLoc, compPose, evBudget,
                   frame, submitLog, waitCount, used, usedPrev, lastCheck,
                   firstValid, failed>>

\* line 158: PollNextEvent reports no event, handleInput returns
PollNextEventNone ==
    /\ pc = "drain"
    /\ vrQueue = <<>>
    /\ calls' = Append(calls, Call("events", "PollNextEvent", <<FALSE>>))
    /\ pc' = "render"
    /\ UNCHANGED <<recSize, setupLog, propQueries, connected, win,
                   shouldClose, app, hmdPose, hmdLoc, compPose, vrQueue,
                   evBudget, printed, frame, submitLog, waitCount, used,
                   usedPrev, lastCheck, firstValid, failed>>

\* lines 235-247: view, perspective and camera of one eye
EyeView(eye) ==
    IF eye = "EyeLeft"
    THEN [ view        |-> Mul4(app.eyeTransforms.PositionLeft, hmdPose),
           perspective |-> app.eyeTransforms.ProjectionLeft,
           camera      |-> [ View |-> Mul4(app.eyeTransforms.PositionLeft,
                                           hmdPose),
                             Position |-> hmdLoc ] ]
    ELSE [ view        |-> Mul4(app.eyeTransforms.PositionRight, hmdPose),
           perspective |-> app.eyeTransforms.ProjectionRight,
           camera      |-> [ View |-> Mul4(app.eyeTransforms.PositionRight,
                                           hmdPose),
                             Position |-> hmdLoc ] ]

\* faulty variant: the device models are drawn for the left eye only
renderSceneDevicesLeftOnly(sec, eye) ==
    LET v == EyeView(eye)
    IN  << Call(sec, "gl.Clear", <<"COLOR_BUFFER_BIT|DEPTH_BUFFER_BIT">>),
           Call(sec, "gl.Enable", <<"DEPTH_TEST">>) >>
        \o [ i \in 1..Len(app.renderables) |->
               Call(sec, "DrawRenderable",
                    <<app.renderables[i], "nil", v.perspective, v.view,
                      v.camera>>) ]
        \o IF eye = "EyeLeft"
           THEN << Call(sec, "RenderDevices",
                        <<"vrCompositor", v.perspective, v.view, v.camera>>) >>
           ELSE <<>>

\* lines 231-255
renderScene(sec, eye) ==
    LET v == EyeView(eye)
    IN  << Call(sec, "gl.Clear", <<"COLOR_BUFFER_BIT|DEPTH_BUFFER_BIT">>),
           Call(sec, "gl.Enable", <<"DEPTH_TEST">>) >>
        \o [ i \in 1..Len(app.renderables) |->
               Call(sec, "DrawRenderable",
                    <<app.renderables[i], "nil", v.perspective, v.view,
                      v.camera>>) ]
        \o << Call(sec, "RenderDevices",
                   <<"vrCompositor", v.perspective, v.view, v.camera>>) >>

\* lines 203-214
LeftEyePass ==
    LET w == ToInt32(app.width)
        h == ToInt32(app.height)
    IN  << Call("left", "gl.Enable", <<"MULTISAMPLE">>),
           Call("left", "gl.BindFramebuffer",
                <<"FRAMEBUFFER", app.eyeLeft.RenderFramebuffer>>),
           Call("left", "gl.Viewport", <<0, 0, w, h>>) >>
        \o renderScene("left", "EyeLeft")
        \o << Call("left", "gl.BindFramebuffer", <<"FRAMEBUFFER", 0>>),
              Call("left", "gl.Disable", <<"MULTISAMPLE">>),
              Call("left", "gl.BindFramebuffer",
                   <<"READ_FRAMEBUFFER", app.eyeLeft.RenderFramebuffer>>),
              Call("left", "gl.BindFramebuffer",
                   <<"DRAW_FRAMEBUFFER", app.eyeLeft.ResolveFramebuffer>>),
              Call("left", "gl.BlitFramebuffer",
                   <<0, 0, w, h, 0, 0, w, h, "COLOR_BUFFER_BIT", "LINEAR">>),
              Call("left", "gl.BindFramebuffer", <<"READ_FRAMEBUFFER", 0>>),
              Call("left", "gl.BindFramebuffer", <<"DRAW_FRAMEBUFFER", 0>>) >>

\* lines 217-228
RightEyePass ==
    LET w == ToInt32(app.width)
        h == ToInt32(app.height)
    IN  << Call("right", "gl.Enable", <<"MULTISAMPLE">>),
           Call("right", "gl.BindFramebuffer",
                <<"FRAMEBUFFER", app.eyeRight.RenderFramebuffer>>),
           Call("right", "gl.Viewport", <<0, 0, w, h>>) >>
        \o renderScene("right", "EyeRight")
        \o << Call("right", "gl.BindFramebuffer", <<"FRAMEBUFFER", 0>>),
              Call("right", "gl.Disable", <<"MULTISAMPLE">>),
              Call("right", "gl.BindFramebuffer",
                   <<"READ_FRAMEBUFFER", app.eyeRight.RenderFramebuffer>>),
              Call("right", "gl.BindFramebuffer",
                   <<"DRAW_FRAMEBUFFER", app.eyeRight.ResolveFramebuffer>>),
              Call("right", "gl.BlitFramebuffer",
                   <<0, 0, w, h, 0, 0, w, h, "COLOR_BUFFER_BIT", "LINEAR">>),
              Call("right", "gl.BindFramebuffer", <<"READ_FRAMEBUFFER", 0>>),
              Call("right", "gl.BindFramebuffer", <<"DRAW_FRAMEBUFFER", 0>>) >>

\* lines 238-246: the head pose and position a frame's render reads
PoseRead == <<hmdPose, hmdLoc>>

\* lines 198-229; the colour components are in hundredths
renderStereoTargets ==
    << Call("stereo", "gl.Enable", <<"CULL_FACE">>),
       Call("stereo", "gl.ClearColor", <<15, 15, 18, 100>>) >>
    \o LeftEyePass \o RightEyePass

\* line 171
RenderStereoTargets ==
    /\ pc = "render"
    /\ calls' = calls \o renderStereoTargets
    /\ usedPrev' = used
    /\ used' = PoseRead
    /\ pc' = "lens"
    /\ UNCHANGED <<recSize, setupLog, propQueries, connected, win,
                   shouldClose, app, hmdPose, hmdLoc, compPose, vrQueue,
                   evBudget, printed, frame, submitLog, waitCount,
                   lastCheck, firstValid, failed>>

\* line 174: arguments of distortionLens.Render
DistortionArgs == <<ToInt32(app.width), ToInt32(app.height)>>

DistortionRender ==
    /\ pc = "lens"
    /\ calls' = Append(calls, Call("lens", "distortionLens.Render",
                                   DistortionArgs))
    /\ pc' = "submitLeft"
    /\ UNCHANGED <<recSize, setupLog, propQueries, connected, win,
                   shouldClose, app, hmdPose, hmdLoc, compPose, vrQueue,
                   evBudget, printed, frame, submitLog, waitCount, used,
                   usedPrev, lastCheck, firstValid, failed>>

\* line 177
SubmitLeft ==
    /\ pc = "submitLeft"
    /\ calls' = Append(calls, Call("submit", "vrCompositor.Submit",
                                   <<"EyeLeft", app.eyeLeft.ResolveTexture>>))
    /\ submitLog' = Append(submitLog, "EyeLeft")
    /\ pc' = "submitRight"
    /\ UNCHANGED <<recSize, setupLog, propQueries, connected, win,
                   shouldClose, app, hmdPose, hmdLoc, compPose, vrQueue,
                   evBudget, printed, frame, waitCount, used, usedPrev,
                   lastCheck, firstValid, failed>>

\* faulty variant: the second submission names the left eye again
SubmitRightLeftAgain ==
    /\ pc = "submitRight"
    /\ calls' = Append(calls, Call("submit", "vrCompositor.Submit",
                                   <<"EyeLeft", app.eyeLeft.ResolveTexture>>))
    /\ submitLog' = Append(submitLog, "EyeLeft")
    /\ pc' = "swap"
    /\ UNCHANGED <<recSize, setupLog, propQueries, connected, win,
                   shouldClose, app, hmdPose, hmdLoc, compPose, vrQueue,
                   evBudget, printed, frame, waitCount, used, usedPrev,
                   lastCheck, firstValid, failed>>

\* line 178
SubmitRight ==
    /\ pc = "submitRight"
    /\ calls' = Append(calls, Call("submit", "vrCompositor.Submit",
                                   <<"EyeRight", app.eyeRight.ResolveTexture>>))
    /\ submitLog' = Append(submitLog, "EyeRight")
    /\ pc' = "swap"
    /\ UNCHANGED <<recSize, setupLog, propQueries, connected, win,
                   shouldClose, app, hmdPose, hmdLoc, compPose, vrQueue,
                   evBudget, printed, frame, waitCount, used, usedPrev,
                   lastCheck, firstValid, failed>>

\* line 181
SwapBuffers ==
    /\ pc = "swap"
    /\ calls' = Append(calls, Call("swap", "window.SwapBuffers", <<>>))
    /\ pc' = "wait"
    /\ UNCHANGED <<recSize, setupLog, propQueries, connected, win,
                   shouldClose, app, hmdPose, hmdLoc, compPose, vrQueue,
                   evBudget, printed, frame, submitLog, waitCount, used,
                   usedPrev, lastCheck, firstValid, failed>>

\* line 186: WaitGetPoses returns with the compositor's poses refreshed;
\* the HMD pose is either invalid or one of HmdPoses
WaitGetPoses ==
    /\ pc = "wait"
    /\ calls' = Append(calls, Call("wait", "vrCompositor.WaitGetPoses",
                                   <<FALSE>>))
    /\ waitCount' = waitCount + 1
    /\ \/ compPose' = NoPose
       \/ \E p \in HmdPoses : compPose' = [valid |-> TRUE, pose |-> p]
    /\ pc' = "poseCheck"
    /\ UNCHANGED <<recSize, setupLog, propQueries, connected, win,
                   shouldClose, app, hmdPose, hmdLoc, vrQueue, evBudget,
                   printed, frame, submitLog, used, usedPrev, lastCheck,
                   firstValid, failed>>

\* lines 189-194: hmdPose and hmdLoc derived from a render pose
PoseFrom(p) ==
    [ hmdPose |-> Inv(Mat34ToMat4(p)),
      hmdLoc  |-> <<p[10], p[11], p[12]>> ]

\* lines 187-195, the end of one iteration
PoseCheck ==
    /\ pc = "poseCheck"
    /\ IF compPose.valid
       THEN /\ calls' = calls
                 \o << Call("pose", "vrCompositor.IsPoseValid",
                            <<"TrackedDeviceIndexHmd">>),
                       Call("pose", "vrCompositor.GetRenderPose",
                            <<"TrackedDeviceIndexHmd">>) >>
            /\ hmdPose' = PoseFrom(compPose.pose).hmdPose
            /\ hmdLoc' = PoseFrom(compPose.pose).hmdLoc
       ELSE /\ calls' = Append(calls, Call("pose", "vrCompositor.IsPoseValid",
                                           <<"TrackedDeviceIndexHmd">>))
            /\ UNCHANGED <<hmdPose, hmdLoc>>
    /\ lastCheck' = IF compPose.valid THEN "valid" ELSE "invalid"
    /\ firstValid' = IF firstValid = 0 /\ compPose.valid THEN frame + 1
                     ELSE firstValid
    /\ frame' = frame + 1
    /\ pc' = "loopHead"
    /\ UNCHANGED <<recSize, setupLog, propQueries, connected, win,
                   shouldClose, app, compPose, vrQueue, evBudget, printed,
                   submitLog, waitCount, used, usedPrev, failed>>

Loop ==
    \/ LoopHead \/ PollEvents \/ CheckKeyPresses \/ RuntimeEvent
    \/ PollNextEventSome \/ PollNextEventNone \/ RenderStereoTargets
    \/ DistortionRender \/ SubmitLeft \/ SubmitRight \/ SwapBuffers
    \/ WaitGetPoses \/ PoseCheck

Next == Setup \/ Loop

Spec == Init /\ [][Next]_vars

(***************************************************************************)
(* Properties.                                                             *)
(***************************************************************************)
AfterRender == {"lens", "submitLeft", "submitRight", "swap", "wait",
                "poseCheck"}
LoopPcs == {"loopHead", "pollEvents", "checkKeys", "drain", "render",
            "exited"} \cup AfterRender

IsPrefix(a, b) == Len(a) <= Len(b) /\ SubSeq(b, 1, Len(a)) = a

\* the step of the iteration a call stands for, "" for the calls inside one
StepOf(c) ==
    CASE c.op = "glfw.PollEvents" -> "poll window input"
      [] c.op = "kbModel.CheckKeyPresses" -> "apply key bindings"
      [] c.op = "PollNextEvent" ->
            IF c.args = <<FALSE>> THEN "VR events drained" ELSE ""
      [] c.op = "gl.BindFramebuffer" ->
            IF c.args = <<"FRAMEBUFFER", app.eyeLeft.RenderFramebuffer>>
              THEN "render left"
            ELSE IF c.args = <<"DRAW_FRAMEBUFFER",
                               app.eyeLeft.ResolveFramebuffer>>
              THEN "resolve left"
            ELSE IF c.args = <<"FRAMEBUFFER", app.eyeRight.RenderFramebuffer>>
              THEN "render right"
            ELSE IF c.args = <<"DRAW_FRAMEBUFFER",
                               app.eyeRight.ResolveFramebuffer>>
              THEN "resolve right"
            ELSE ""
      [] c.op = "distortionLens.Render" -> "distortion render"
      [] c.op = "vrCompositor.Submit" ->
            IF c.args[1] = "EyeLeft" THEN "submit left" ELSE "submit right"
      [] c.op = "window.SwapBuffers" -> "swap buffers"
      [] c.op = "vrCompositor.WaitGetPoses" -> "wait get poses"
      [] c.op = "vrCompositor.IsPoseValid" -> "pose validity check"
      [] OTHER -> ""

RECURSIVE Steps(_)
Steps(cs) ==
    IF cs = <<>> THEN <<>>
    ELSE IF StepOf(Head(cs)) = "" THEN Steps(Tail(cs))
    ELSE <<StepOf(Head(cs))>> \o Steps(Tail(cs))

IterationOrder ==
    << "poll window input", "apply key bindings", "VR events drained",
       "render left", "resolve left", "render right", "resolve right",
       "distortion render", "submit left", "submit right", "swap buffers",
       "wait get poses", "pose validity check" >>

\* C1: every loop iteration issues its steps once each, in the order input
\* poll, key bindings, event drain, left eye render and resolve, right eye
\* render and resolve, distortion render, Submit(left), Submit(right),
\* SwapBuffers, WaitGetPoses, pose validity check; after N completed
\* iterations the compositor has received 2N submissions alternating left,
\* right, and WaitGetPoses has been called N times.
C1_FrameOrder ==
    /\ IsPrefix(Steps(calls), IterationOrder)
    /\ (pc \in {"loopHead", "exited"} /\ frame > 0)
          => Steps(calls) = IterationOrder
    /\ pc \in {"loopHead", "exited"}
          => /\ Len(submitLog) = 2 * frame
             /\ waitCount = frame
    /\ \A i \in 1..Len(submitLog) :
          submitLog[i] = IF i % 2 = 1 THEN "EyeLeft" ELSE "EyeRight"
    /\ Len(submitLog) \in (2 * frame)..(2 * frame + 2)
    /\ waitCount \in frame..(frame + 1)
    /\ (waitCount = frame + 1) => (Len(submitLog) = 2 * frame + 2)

C1_Witness ==
    /\ pc = "loopHead"
    /\ frame = 3
    /\ Len(submitLog) = 6
    /\ waitCount = 3
    /\ Steps(calls) = IterationOrder

\* C3: the close flag never goes from true to false; the loop test with the
\* flag true leaves the loop, and no iteration starts while the flag is
\* true, so the iteration in which the flag became true is the last one.
C3_CloseFlag ==
    [][ /\ shouldClose => shouldClose'
        /\ (pc = "loopHead" /\ shouldClose) => pc' = "exited"
        /\ (pc' = "pollEvents" /\ pc # "pollEvents") => ~shouldClose
        /\ pc = "exited" => pc' = "exited" ]_vars

C3_Witness ==
    /\ pc = "exited"
    /\ shouldClose
    /\ frame = 2
    /\ waitCount = 2

SetupOrder ==
    << "glfw.Init", "glfw.CreateWindow", "openvr.Init", "deviceProperty:name",
       "deviceProperty:serial", "opengl.InitOpenGL",
       "forward.CreateBasicShader", "LoadShaderProgram:RenderModel",
       "LoadShaderProgram:LensDistortion", "buildScene",
       "fizzlevr.CreateDeviceRenderables", "openvr.GetCompositor" >>

\* C4: once a setup step has returned an error no later setup step runs,
\* the program is at log.Fatal, the starfield struct is never built and the
\* frame loop issues no call; the loop is entered only after every setup
\* step has run without an error.
C4_SetupFatal ==
    /\ IsPrefix(setupLog, SetupOrder)
    /\ failed # "" =>
          /\ pc = "fatal"
          /\ setupLog # <<>>
          /\ setupLog[Len(setupLog)] = failed
          /\ ~app.built
          /\ calls = <<>> /\ submitLog = <<>> /\ waitCount = 0 /\ frame = 0
    /\ pc = "fatal" => failed # ""
    /\ pc \in LoopPcs => (failed = "" /\ setupLog = SetupOrder /\ app.built)

C4_Witness ==
    /\ pc = "fatal"
    /\ failed = "fizzlevr.CreateDeviceRenderables"
    /\ Len(setupLog) = 11

\* the width/height pairs of the gl.Viewport and gl.BlitFramebuffer calls
SizesUsed(cs) ==
    { <<cs[i].args[3], cs[i].args[4]>> :
         i \in { j \in 1..Len(cs) : cs[j].op \in {"gl.Viewport",
                                                  "gl.BlitFramebuffer"} } }
    \cup
    { <<cs[i].args[7], cs[i].args[8]>> :
         i \in { j \in 1..Len(cs) : cs[j].op = "gl.BlitFramebuffer" } }

\* C5: the arguments of the stereo target creation and the stored width and
\* height of the driver equal the pair the runtime reported, component by
\* component, for the whole session, and every per-eye viewport and blit
\* uses that pair.
C5_Resolution ==
    /\ pc \in {"deviceRenderables", "getCompositor"} \cup LoopPcs
          => app.targetArgs = recSize
    /\ app.built => (app.width = recSize[1] /\ app.height = recSize[2])
    /\ SizesUsed(calls) \subseteq {recSize}

C5_Witness ==
    /\ pc = "lens"
    /\ frame = 1
    /\ recSize = <<1512, 1680>>
    /\ SizesUsed(calls) = {<<1512, 1680>>}

\* the calls of one eye pass with that eye's framebuffers replaced by their
\* roles and its matrices replaced by whether they are that eye's
FbRole(fb, eyeFb) ==
    IF fb = eyeFb.RenderFramebuffer THEN "render"
    ELSE IF fb = eyeFb.ResolveFramebuffer THEN "resolve"
    ELSE IF fb = 0 THEN "default"
    ELSE "other"

EyeNeutral(c, eyeFb, position, projection) ==
    [ op   |-> c.op,
      args |->
        CASE c.op = "gl.BindFramebuffer" ->
                <<c.args[1], FbRole(c.args[2], eyeFb)>>
          [] c.op = "DrawRenderable" ->
                << c.args[1], c.args[2],
                   c.args[3] = projection,
                   c.args[4] = Mul4(position, used[1]),
                   c.args[5].View = c.args[4],
                   c.args[5].Position >>
          [] c.op = "RenderDevices" ->
                << c.args[1],
                   c.args[2] = projection,
                   c.args[3] = Mul4(position, used[1]),
                   c.args[4].View = c.args[3],
                   c.args[4].Position >>
          [] OTHER -> c.args ]

PassOf(sec) == SelectSeq(calls, LAMBDA c : c.sec = sec)

NeutralPass(cs, eyeFb, position, projection) ==
    [ i \in 1..Len(cs) |-> EyeNeutral(cs[i], eyeFb, position, projection) ]

OpsOf(cs) == [ i \in 1..Len(cs) |-> cs[i].op ]

DrawnBy(cs) ==
    LET d == SelectSeq(cs, LAMBDA c : c.op = "DrawRenderable")
    IN  [ i \in 1..Len(d) |-> d[i].args[1] ]

\* C6: when renderStereoTargets has returned, the left and the right pass
\* it issued are the same calls in the same order, apart from the
\* framebuffers bound and the projection and view matrices passed; both draw
\* the whole star list in its order with the same material and viewport,
\* make one RenderDevices call, and build their view and camera from the
\* one head pose and position of the frame.
C6_EyeSymmetry ==
    LET left  == PassOf("left")
        right == PassOf("right")
        ln == NeutralPass(left, app.eyeLeft, app.eyeTransforms.PositionLeft,
                          app.eyeTransforms.ProjectionLeft)
        rn == NeutralPass(right, app.eyeRight,
                          app.eyeTransforms.PositionRight,
                          app.eyeTransforms.ProjectionRight)
    IN  pc = "lens" =>
           /\ left # <<>>
           /\ OpsOf(ln) = OpsOf(rn)
           /\ ln = rn
           /\ DrawnBy(left) = app.renderables
           /\ DrawnBy(right) = app.renderables
           /\ \A i \in 1..Len(ln) :
                 /\ ln[i].op = "DrawRenderable" =>
                       ln[i].args = << app.renderables[i - 5], "nil", TRUE,
                                       TRUE, TRUE, used[2] >>
                 /\ ln[i].op = "RenderDevices" =>
                       ln[i].args = <<"vrCompositor", TRUE, TRUE, TRUE,
                                      used[2]>>
           /\ Len(SelectSeq(left, LAMBDA c : c.op = "RenderDevices")) = 1
           /\ Len(SelectSeq(right, LAMBDA c : c.op = "RenderDevices")) = 1

C6_Witness ==
    /\ pc = "lens"
    /\ firstValid = 1
    /\ frame = 2
    /\ used[1] # ZeroMat4
    /\ Len(PassOf("left")) = 13 + MaxStars
    /\ Len(PassOf("right")) = 13 + MaxStars

DriverState ==
    <<shouldClose, hmdPose, hmdLoc, app, win, compPose, frame, submitLog,
      waitCount, used, usedPrev>>

EventPolls(cs) ==
    SelectSeq(cs, LAMBDA c : c.op = "PollNextEvent" /\ c.args = <<TRUE>>)

WithoutEventPolls(cs) ==
    SelectSeq(cs, LAMBDA c : ~(c.op = "PollNextEvent" /\ c.args = <<TRUE>>))

\* C9: a step of the event drain changes nothing of the driver's state; the
\* drain is left only with the runtime's queue empty, and only for the
\* render; the calls of the iteration, the event polls apart, are those of
\* an iteration without events.
C9_EventsObservational ==
    /\ [][ pc = "drain" =>
             /\ DriverState' = DriverState
             /\ pc' # "drain" => (vrQueue = <<>> /\ pc' = "render") ]_vars
    /\ [](pc = "lens" =>
             WithoutEventPolls(calls) =
                << Call("input", "glfw.PollEvents", <<>>),
                   Call("input", "kbModel.CheckKeyPresses", <<>>),
                   Call("events", "PollNextEvent", <<FALSE>>) >>
                \o renderStereoTargets)

C9_Witness ==
    /\ pc = "render"
    /\ Len(EventPolls(calls)) = 2
    /\ printed = 1
    /\ vrQueue = <<>>

\* the frame the pose in `used` was read for, 0 before the first render
UsedFrame == IF pc \in AfterRender THEN frame + 1 ELSE frame

Identity4 == Translate3D(0, 0, 0)

\* C10 (amended): no pose is fetched before the first render; a frame is
\* rendered with the pose left by the previous iteration; every frame up to
\* and including the one whose iteration ends with the first valid pose
\* report is rendered with the zero hmdPose and hmdLoc, and the frame after
\* a valid report is rendered with the inverse of the reported transform.
C10_PoseLag ==
    /\ (used = <<>>) = (UsedFrame = 0)
    /\ UsedFrame = 0 =>
          (hmdPose = ZeroMat4 /\ hmdLoc = ZeroVec3 /\ waitCount = 0)
    /\ pc \in AfterRender => used = <<hmdPose, hmdLoc>>
    /\ (UsedFrame >= 1 /\ (firstValid = 0 \/ UsedFrame <= firstValid))
          => used = <<ZeroMat4, ZeroVec3>>
    /\ (pc \in AfterRender \ {"poseCheck"} /\ lastCheck = "valid")
          => /\ Mul4(used[1], Mat34ToMat4(compPose.pose)) = Identity4
             /\ used[2] = << compPose.pose[10], compPose.pose[11],
                             compPose.pose[12] >>

C10_Witness ==
    /\ pc = "lens"
    /\ frame = 2
    /\ firstValid = 2
    /\ usedPrev = <<ZeroMat4, ZeroVec3>>
    /\ used[1] # ZeroMat4

\* C10 as stated: every frame up to and including the one after the first
\* valid pose report is rendered with the zero hmdPose and hmdLoc.
C10_AsStated ==
    (UsedFrame >= 1 /\ (firstValid = 0 \/ UsedFrame <= firstValid + 1))
       => used = <<ZeroMat4, ZeroVec3>>

\* C2 as stated: a frame rendered after an invalid pose report reads the
\* head pose and position of the frame before it, and they are not the
\* zero value.
C2_PoseStaleness ==
    (pc \in AfterRender /\ lastCheck = "invalid")
       => /\ used = usedPrev
          /\ used # <<ZeroMat4, ZeroVec3>>

\* C7 as stated: the distortion render is called with the live width and
\* height of the window.
C7_LensWindowSize ==
    \A i \in 1..Len(calls) :
       calls[i].op = "distortionLens.Render"
          => calls[i].args = <<win.width, win.height>>

\* C8 as stated: newVR queries the tracking-system name and the serial
\* number, and what it prints as the serial number is the value of the
\* serial-number property.
C8_SerialQueried ==
    Len(connected) = 2 =>
       /\ propQueries = << "PropTrackingSystemNameString",
                           "PropSerialNumberString" >>
       /\ connected = << PropValue("PropTrackingSystemNameString"),
                         PropValue("PropSerialNumberString") >>

====
